---- MODULE Spec2Model ----
(***************************************************************************)
(* Model of the two provisioning scripts of scripts/azure:                 *)
(*   create_sp_for_swa_rg.py    (definitions prefixed Swa_)                 *)
(*   keyvault_sp_restricted.py  (definitions prefixed Kv_)                  *)
(* A run is one process: main() executed top to bottom.  Every external    *)
(* CLI call is one step; the response of the CLI (exit code and standard   *)
(* output) is the step's input.  `calls` and `prompts` record what the     *)
(* process did to the outside world.                                       *)
(*                                                                         *)
(* Strings.  A Python str is a TLA+ string.  A line typed by the operator  *)
(* is a sequence of chunks, a chunk being either whitespace (" ") or text, *)
(* so that str.strip() has something to remove.  Standard output is a      *)
(* record [kind, val]: kind "empty" is "", "blank" is whitespace only,     *)
(* "bad" is text that is not JSON, "ok" is usable text whose lines (TSV)   *)
(* or fields (JSON object, in the order the code reads them) are val.      *)
(* An argument of a command line is the sequence of its whitespace-free    *)
(* words, so that joining arguments with spaces and splitting the line     *)
(* again is not the identity.                                              *)
(***************************************************************************)
EXTENDS Integers, Sequences, FiniteSets, TLC

\* Longest standard output, in lines, of the secret listing.
MaxLines == 3

\* Python's None, where a str is expected.
None == "<None>"

Falsy(s) == s = None \/ s = ""

-----------------------------------------------------------------------------
(* Pure helpers of the Python runtime.                                     *)

RECURSIVE LStrip(_, _)
LStrip(s, blank) ==
    IF s = <<>> THEN <<>>
    ELSE IF Head(s) = blank THEN LStrip(Tail(s), blank) ELSE s

RECURSIVE RStrip(_, _)
RStrip(s, blank) ==
    IF s = <<>> THEN <<>>
    ELSE IF s[Len(s)] = blank THEN RStrip(SubSeq(s, 1, Len(s) - 1), blank)
         ELSE s

RECURSIVE Concat(_)
Concat(s) == IF s = <<>> THEN "" ELSE Head(s) \o Concat(Tail(s))

\* str.strip() of a typed line: leading and trailing whitespace chunks go.
StripLine(line) == Concat(RStrip(LStrip(line, " "), " "))

\* str.strip() of standard output.
StripOut(stdout) ==
    CASE stdout.kind = "empty" -> [kind |-> "empty", val |-> <<>>]
      [] stdout.kind = "blank" -> [kind |-> "empty", val |-> <<>>]
      [] stdout.kind = "bad"   -> stdout
      [] OTHER ->
           LET t == RStrip(LStrip(stdout.val, ""), "")
           IN  IF t = <<>> THEN [kind |-> "empty", val |-> <<>>]
               ELSE [kind |-> "ok", val |-> t]

\* The str (or None) an az() result stands for when it is used as a value.
Text(out) ==
    CASE out.kind = "none"  -> None
      [] out.kind = "empty" -> ""
      [] OTHER              -> out.val[1]

\* `not out`
NotOut(out) == out.kind \in {"none", "empty"}

\* str.splitlines() followed by [n for n in names if n]
RECURSIVE NonEmpty(_)
NonEmpty(names) ==
    IF names = <<>> THEN <<>>
    ELSE IF Head(names) = "" THEN NonEmpty(Tail(names))
         ELSE <<Head(names)>> \o NonEmpty(Tail(names))

\* dict.get(key, default)
Get(d, key, default) == IF key \in DOMAIN d THEN d[key] ELSE default

\* The words of a str without inner whitespace.
Words(s) == IF s = "" THEN <<>> ELSE <<s>>

\* An argument vector of such strs.
Argv(strs) == [i \in DOMAIN strs |-> Words(strs[i])]

\* " ".join(full_cmd): the words of the command line, in order.
RECURSIVE Join(_)
Join(argv) == IF argv = <<>> THEN <<>> ELSE Head(argv) \o Join(Tail(argv))

\* The argument vector a shell builds from a command line: one per word.
ShellSplit(line) == [i \in DOMAIN line |-> <<line[i]>>]

-----------------------------------------------------------------------------
(* The outside world.                                                      *)

\* defaults.toml, when it exists.
TomlFiles ==
    { [org_prefix |-> "acme", azure_tenant_id |-> "tD",
       azure_subscription_id |-> "sub", azure_resource_group |-> "rg",
       azure_keyvault_name |-> "kv"],
      [org_prefix |-> "acme",
       azure_subscription_id |-> "sub", azure_resource_group |-> "rg",
       azure_keyvault_name |-> "kv"] }

\* What the operator may type at a prompt.
Enter == <<>>
TenantLines == { Enter, <<" ">>, <<" ", "tP", " ">> }
ChoiceLines == { Enter, <<"2">> }
YesNoLines == { Enter, <<"no">> }

Out(kind, val) == [kind |-> kind, val |-> val]
Resp(rc, stdout) == [rc |-> rc, stdout |-> stdout]

\* A failing call prints its diagnostics on the error stream only.
Failed == Resp(1, Out("empty", <<>>))

\* Responses to a call whose output is a JSON object with these fields.
JsonResps(fields) ==
    { Failed, Resp(0, Out("empty", <<>>)), Resp(0, Out("blank", <<>>)),
      Resp(0, Out("bad", <<>>)), Resp(0, Out("ok", fields)) }

\* Responses to a call whose output is one TSV value.
TsvResps(value) ==
    { Failed, Resp(0, Out("empty", <<>>)), Resp(0, Out("blank", <<>>)),
      Resp(0, Out("ok", <<value>>)) }

\* Responses to a call whose output is not read.
PlainResps == { Failed, Resp(0, Out("empty", <<>>)) }

\* Responses to the secret listing: up to MaxLines lines, some maybe empty.
SecretNames == {"dev-a", "dev-b"}
ListResps ==
    { Failed, Resp(0, Out("empty", <<>>)) } \cup
    { Resp(0, Out("ok", l)) :
        l \in UNION { [1..n -> SecretNames \cup {""}] : n \in 1..MaxLines } }

-----------------------------------------------------------------------------
VARIABLES
    script,      \* which of the two scripts runs: "swa" or "kv"
    fs_exists,   \* os.path.exists(DEFAULTS_FILE)
    fs_content,  \* the content of DEFAULTS_FILE
    pc,          \* position of main()
    exit_code,   \* -1 while running, else the process exit code
    message,     \* the error message printed on the way out, if any
    prompts,     \* prompts shown so far: [msg, after (calls made before)]
    calls,       \* external calls so far: [kind, cmd, argv, rc, stdout]
    m,           \* the local variables of main() and of the function it is in
    report       \* the credential report printed, if any

vars == <<script, fs_exists, fs_content, pc, exit_code, message, prompts,
          calls, m, report>>

envVars == <<script, fs_exists, fs_content>>

NoReport == [printed |-> FALSE, clientId |-> "", clientSecret |-> "",
             tenantId |-> "", subscriptionId |-> ""]

\* main() before its first statement.  found is "unset" until get_sp has
\* returned; prompted_tenant keeps the value tenant_id had after its prompt.
Locals ==
    [ defaults        |-> [org_prefix |-> ""],
      org_prefix      |-> "",
      sp_name         |-> "",
      tenant_id       |-> "",
      prompted_tenant |-> "",
      subscription_id |-> "",
      resource_group  |-> "",   \* rg_name in the first script
      keyvault_name   |-> "",
      scope_choice    |-> "",
      secret_prefix   |-> None,
      scope           |-> "",
      found           |-> "unset",
      client_id       |-> None,
      object_id       |-> None,
      real_tenant_id  |-> None,
      client_secret   |-> None,
      secret_names    |-> <<>>,
      idx             |-> 1,
      create_swa      |-> "",
      swa_name        |-> "",
      swa_location    |-> "" ]

Init ==
    /\ script \in {"swa", "kv"}
    /\ fs_exists \in BOOLEAN
    /\ fs_content \in TomlFiles
    /\ pc = "load_defaults"
    /\ exit_code = -1
    /\ message = ""
    /\ prompts = <<>>
    /\ calls = <<>>
    /\ m = Locals
    /\ report = NoReport

-----------------------------------------------------------------------------
(* Ways out of the process and effects on the outside world.               *)

\* sys.exit(1) after printing msg
Exit(msg) == pc' = "exit" /\ exit_code' = 1 /\ message' = msg

\* an exception nobody catches: traceback, exit code 1
Crash == pc' = "crash" /\ exit_code' = 1 /\ message' = "Traceback"

Goto(label) == pc' = label /\ UNCHANGED <<exit_code, message>>

\* One external call: the command assembled, the argument vector the CLI
\* receives, and the CLI's response.
Issue(kind, r, resp) ==
    calls' = Append(calls, [kind |-> kind, cmd |-> r.cmd, argv |-> r.argv,
                            rc |-> resp.rc, stdout |-> resp.stdout])

Shown(msgs) ==
    prompts' = prompts \o [i \in DOMAIN msgs |->
                             [msg |-> msgs[i], after |-> Len(calls)]]

\* prompt(msg, default), given the line the operator types
prompt(line, default) ==
    LET val == StripLine(line) IN IF val # "" THEN val ELSE default

-----------------------------------------------------------------------------
(* load_defaults, the same in both scripts.                                *)

Swa_load_defaults ==
    /\ script = "swa" /\ pc = "load_defaults"
    /\ IF ~fs_exists
       THEN Exit("Defaults file not found") /\ UNCHANGED m
       ELSE Goto("prompt") /\ m' = [m EXCEPT !.defaults = fs_content]
    /\ UNCHANGED <<envVars, prompts, calls, report>>

\* Kv_load_defaults going on without defaults when the file is absent.
Kv_load_defaults_lenient ==
    /\ script = "kv" /\ pc = "load_defaults"
    /\ IF ~fs_exists
       THEN Goto("prompt") /\ UNCHANGED m
       ELSE Goto("prompt") /\ m' = [m EXCEPT !.defaults = fs_content]
    /\ UNCHANGED <<envVars, prompts, calls, report>>

Kv_load_defaults ==
    /\ script = "kv" /\ pc = "load_defaults"
    /\ IF ~fs_exists
       THEN Exit("Defaults file not found") /\ UNCHANGED m
       ELSE Goto("prompt") /\ m' = [m EXCEPT !.defaults = fs_content]
    /\ UNCHANGED <<envVars, prompts, calls, report>>

-----------------------------------------------------------------------------
(* create_sp_for_swa_rg.py                                                 *)

\* az(cmd, capture_output, check): what the CLI receives, whether the call
\* raises before it is made (subprocess.run rejects a None argument),
\* whether the process exits on the result, and the value returned.
Swa_az(cmd, capture_output, check, resp) ==
    LET full_cmd == <<Words("az")>> \o cmd IN
    [ raises |-> \E i \in DOMAIN full_cmd : full_cmd[i] = Words(None),
      cmd    |-> full_cmd,
      argv   |-> full_cmd,
      exits  |-> check /\ resp.rc # 0,
      msg    |-> "Command failed",
      out    |-> IF resp.stdout.kind = "empty" THEN Out("none", <<>>)
                 ELSE StripOut(resp.stdout) ]

\* One call through az(): r is the az() result for response resp, Cont what
\* the caller does with the returned value.
Invoke(kind, r, resp, Cont) ==
    IF r.raises THEN Crash /\ UNCHANGED <<calls, m>>
    ELSE /\ Issue(kind, r, resp)
         /\ IF r.exits THEN Exit(r.msg) /\ UNCHANGED m ELSE Cont

\* str.lower() of the answers the operator may give
Lower(s) == CASE s = "Y" -> "y" [] s = "YES" -> "yes" [] OTHER -> s

Swa_prompts ==
    /\ script = "swa" /\ pc = "prompt"
    /\ \E tenant_line \in TenantLines :
         LET org_prefix == Get(m.defaults, "org_prefix", "pfx")
             sp_base_name == prompt(Enter, org_prefix \o "-swa-deployer")
             tenant == prompt(tenant_line,
                              Get(m.defaults, "azure_tenant_id", ""))
             subscription == prompt(Enter,
                              Get(m.defaults, "azure_subscription_id", ""))
             rg_name == prompt(Enter, "rg-core")
         IN  m' = [m EXCEPT !.org_prefix = org_prefix,
                            !.sp_name = sp_base_name \o "-sp",
                            !.tenant_id = tenant,
                            !.prompted_tenant = tenant,
                            !.subscription_id = subscription,
                            !.resource_group = rg_name,
                            !.scope = "/subscriptions/" \o subscription
                                      \o "/resourceGroups/" \o rg_name]
    /\ Shown(<<"Service Principal name prefix", "Azure Tenant ID",
               "Azure Subscription ID", "Resource Group name">>)
    /\ Goto("get_sp")
    /\ UNCHANGED <<envVars, calls, report>>

\* get_sp, the lookup by name: made with check=False
Swa_get_sp ==
    /\ script = "swa" /\ pc = "get_sp"
    /\ \E resp \in JsonResps(<<"app1", "obj1">>) :
         LET r == Swa_az(Argv(<<"ad", "sp", "show", "--id",
                                "http://" \o m.sp_name>>), TRUE, FALSE, resp)
         IN  Invoke("sp_show_name", r, resp,
               IF NotOut(r.out)
               THEN Goto("create_sp") /\ m' = [m EXCEPT !.found = "False"]
               ELSE IF r.out.kind = "bad"
               THEN Crash /\ UNCHANGED m
               ELSE /\ Goto("get_sp_tenant")
                    /\ m' = [m EXCEPT !.client_id = r.out.val[1],
                                      !.object_id = r.out.val[2]])
    /\ UNCHANGED <<envVars, prompts, report>>

\* get_sp, the tenant query, and the return to main
Swa_get_sp_tenant ==
    /\ script = "swa" /\ pc = "get_sp_tenant"
    /\ \E resp \in TsvResps("tC") :
         LET r == Swa_az(Argv(<<"ad", "sp", "show", "--id", m.client_id,
                                "--query", "appOwnerOrganizationId",
                                "-o", "tsv">>), TRUE, TRUE, resp)
         IN  Invoke("sp_show_tenant", r, resp,
               /\ Goto("reset_sp_secret")
               /\ m' = [m EXCEPT !.found = "True",
                                 !.real_tenant_id = Text(r.out)])
    /\ UNCHANGED <<envVars, prompts, report>>

\* Swa_reset_cmd resetting by name, as get_sp looks up, instead of by id.
Swa_reset_cmd_by_name(id) ==
    Argv(<<"ad", "sp", "credential", "reset", "--id",
           "http://" \o m.sp_name, "--query", "password", "-o", "tsv">>)

\* The command of reset_sp_secret.
Swa_reset_cmd(id) ==
    Argv(<<"ad", "sp", "credential", "reset", "--id", id,
           "--query", "password", "-o", "tsv">>)

\* main, the found branch: reset_sp_secret and the tenant backfill
Swa_reset_sp_secret ==
    /\ script = "swa" /\ pc = "reset_sp_secret"
    /\ \E resp \in TsvResps("pw1") :
         LET r == Swa_az(Swa_reset_cmd(m.client_id), TRUE, TRUE, resp)
         IN  Invoke("sp_credential_reset", r, resp,
               /\ Goto("assign_rbac")
               /\ m' = [m EXCEPT !.client_secret = Text(r.out),
                                 !.tenant_id = IF Falsy(m.tenant_id)
                                               THEN m.real_tenant_id
                                               ELSE m.tenant_id])
    /\ UNCHANGED <<envVars, prompts, report>>

\* The command of create_sp.
CreateCmd(name) ==
    Argv(<<"ad", "sp", "create-for-rbac", "--name", name,
           "--skip-assignment", "--query">>)
    \o << <<"{clientId:", "appId,", "clientSecret:", "password,",
            "tenantId:", "tenant}">> >>
    \o Argv(<<"-o", "json">>)

\* create_sp, the creation call
Swa_create_sp ==
    /\ script = "swa" /\ pc = "create_sp"
    /\ \E resp \in JsonResps(<<"app2", "pw2", "tC">>) :
         LET r == Swa_az(CreateCmd(m.sp_name), TRUE, TRUE, resp)
         IN  Invoke("sp_create", r, resp,
               IF NotOut(r.out)
               THEN Exit("No output returned by az command") /\ UNCHANGED m
               ELSE IF r.out.kind = "bad"
               THEN Crash /\ UNCHANGED m
               ELSE /\ Goto("create_sp_object_id")
                    /\ m' = [m EXCEPT !.client_id = r.out.val[1],
                                      !.client_secret = r.out.val[2],
                                      !.tenant_id = r.out.val[3]])
    /\ UNCHANGED <<envVars, prompts, report>>

\* The command of the object-id query of create_sp.
Swa_object_id_cmd(id) ==
    Argv(<<"ad", "sp", "show", "--id", id, "--query", "id", "-o", "tsv">>)

\* create_sp, the object-id query, and the return to main
Swa_create_sp_object_id ==
    /\ script = "swa" /\ pc = "create_sp_object_id"
    /\ \E resp \in TsvResps("obj2") :
         LET r == Swa_az(Swa_object_id_cmd(m.client_id), TRUE, TRUE, resp)
         IN  Invoke("sp_show_object_id", r, resp,
               /\ Goto("assign_rbac")
               /\ m' = [m EXCEPT !.object_id = Text(r.out)])
    /\ UNCHANGED <<envVars, prompts, report>>

\* The command of assign_rbac; role is given by its words.
RoleCmd(id, role, scope) ==
    Argv(<<"role", "assignment", "create", "--assignee", id, "--role">>)
    \o <<role>> \o Argv(<<"--scope", scope>>)

Swa_assign_rbac ==
    /\ script = "swa" /\ pc = "assign_rbac"
    /\ \E resp \in PlainResps :
         LET r == Swa_az(RoleCmd(m.object_id, <<"Contributor">>, m.scope),
                         FALSE, TRUE, resp)
         IN  Invoke("role_assignment", r, resp,
                    Goto("prompt_swa") /\ UNCHANGED m)
    /\ UNCHANGED <<envVars, prompts, report>>

\* main, the prompts of the Static Web App
Swa_prompt_swa ==
    /\ script = "swa" /\ pc = "prompt_swa"
    /\ \E line \in YesNoLines :
         LET create_swa == Lower(prompt(line, "yes")) IN
         IF create_swa \in {"yes", "y"}
         THEN /\ m' = [m EXCEPT !.create_swa = create_swa,
                         !.swa_name = prompt(Enter, m.org_prefix \o "-swa"),
                         !.swa_location = prompt(Enter, "AustraliaEast")]
              /\ Shown(<<"Do you want to create an Azure Static Web App?",
                         "Static Web App name", "SWA location">>)
              /\ Goto("create_swa_app")
         ELSE /\ m' = [m EXCEPT !.create_swa = create_swa]
              /\ Shown(<<"Do you want to create an Azure Static Web App?">>)
              /\ Goto("report")
    /\ UNCHANGED <<envVars, calls, report>>

Swa_create_swa_app ==
    /\ script = "swa" /\ pc = "create_swa_app"
    /\ \E resp \in PlainResps :
         LET r == Swa_az(Argv(<<"staticwebapp", "create", "--name",
                                m.swa_name, "--resource-group",
                                m.resource_group, "--location",
                                m.swa_location, "--sku", "Free",
                                "--source", ".">>), TRUE, TRUE, resp)
         IN  Invoke("staticwebapp_create", r, resp,
                    Goto("report") /\ UNCHANGED m)
    /\ UNCHANGED <<envVars, prompts, report>>

\* main, the credential report
Swa_report ==
    /\ script = "swa" /\ pc = "report"
    /\ report' = [printed |-> TRUE, clientId |-> m.client_id,
                  clientSecret |-> m.client_secret,
                  tenantId |-> m.tenant_id,
                  subscriptionId |-> m.subscription_id]
    /\ pc' = "done" /\ exit_code' = 0
    /\ UNCHANGED <<envVars, message, prompts, calls, m>>

Swa_main ==
    \/ Swa_load_defaults
    \/ Swa_prompts
    \/ Swa_get_sp
    \/ Swa_get_sp_tenant
    \/ Swa_reset_sp_secret
    \/ Swa_create_sp
    \/ Swa_create_sp_object_id
    \/ Swa_assign_rbac
    \/ Swa_prompt_swa
    \/ Swa_create_swa_app
    \/ Swa_report

-----------------------------------------------------------------------------
(* keyvault_sp_restricted.py                                               *)

\* Kv_az with the return value of os.system ignored.
Kv_az_unchecked_system(cmd, capture_output, resp) ==
    LET full_cmd == <<Words("az")>> \o cmd IN
    [ raises |-> \E i \in DOMAIN full_cmd : full_cmd[i] = Words(None),
      cmd    |-> full_cmd,
      argv   |-> IF capture_output THEN full_cmd
                 ELSE ShellSplit(Join(full_cmd)),
      exits  |-> capture_output /\ resp.rc # 0,
      msg    |-> "Command failed",
      out    |-> IF capture_output THEN StripOut(resp.stdout)
                 ELSE Out("none", <<>>) ]

\* az(cmd, capture_output): with capture_output the argument vector goes to
\* subprocess.run; without it the vector is joined with spaces into one
\* command line that os.system hands to the shell.
Kv_az(cmd, capture_output, resp) ==
    LET full_cmd == <<Words("az")>> \o cmd IN
    [ raises |-> \E i \in DOMAIN full_cmd : full_cmd[i] = Words(None),
      cmd    |-> full_cmd,
      argv   |-> IF capture_output THEN full_cmd
                 ELSE ShellSplit(Join(full_cmd)),
      exits  |-> resp.rc # 0,
      msg    |-> IF capture_output THEN "Command failed" ELSE "",
      out    |-> IF capture_output THEN StripOut(resp.stdout)
                 ELSE Out("none", <<>>) ]

Kv_prompts ==
    /\ script = "kv" /\ pc = "prompt"
    /\ \E tenant_line \in TenantLines, choice_line \in ChoiceLines :
         LET org_prefix == Get(m.defaults, "org_prefix", "pfx")
             repo_name == prompt(Enter, org_prefix \o "-repo")
             tenant == prompt(tenant_line,
                              Get(m.defaults, "azure_tenant_id", ""))
             scope_choice == prompt(choice_line, "1")
         IN  /\ m' = [m EXCEPT
                  !.org_prefix = org_prefix,
                  !.sp_name = repo_name \o "-sp",
                  !.tenant_id = tenant,
                  !.prompted_tenant = tenant,
                  !.subscription_id = prompt(Enter,
                        Get(m.defaults, "azure_subscription_id", "")),
                  !.resource_group = prompt(Enter,
                        Get(m.defaults, "azure_resource_group", "")),
                  !.keyvault_name = prompt(Enter,
                        Get(m.defaults, "azure_keyvault_name", "")),
                  !.scope_choice = scope_choice,
                  !.secret_prefix = IF scope_choice = "2"
                                    THEN prompt(Enter, repo_name \o "-")
                                    ELSE None]
             /\ Shown(<<"Enter the Git repository name", "Azure Tenant ID",
                        "Azure Subscription ID", "Azure Resource Group",
                        "Azure Key Vault name", "Enter 1 or 2">>
                      \o IF scope_choice = "2"
                         THEN <<"Enter the prefix to match secrets">>
                         ELSE <<>>)
    /\ Goto("get_sp")
    /\ UNCHANGED <<envVars, calls, report>>

\* get_sp, the lookup by name.  The try block catches Exception: a JSON
\* error is caught, the SystemExit raised by az() is not.
Kv_get_sp ==
    /\ script = "kv" /\ pc = "get_sp"
    /\ \E resp \in JsonResps(<<"app1", "obj1">>) :
         LET r == Kv_az(Argv(<<"ad", "sp", "show", "--id", m.sp_name>>),
                        TRUE, resp)
         IN  IF r.raises
             THEN /\ Goto("create_sp") /\ m' = [m EXCEPT !.found = "False"]
                  /\ UNCHANGED calls
             ELSE /\ Issue("sp_show_name", r, resp)
                  /\ IF r.exits THEN Exit(r.msg) /\ UNCHANGED m
                     ELSE IF NotOut(r.out) \/ r.out.kind = "bad"
                     THEN /\ Goto("create_sp")
                          /\ m' = [m EXCEPT !.found = "False"]
                     ELSE /\ Goto("get_sp_tenant")
                          /\ m' = [m EXCEPT !.client_id = r.out.val[1],
                                            !.object_id = r.out.val[2]]
    /\ UNCHANGED <<envVars, prompts, report>>

\* get_sp, the tenant query, and the return to main
Kv_get_sp_tenant ==
    /\ script = "kv" /\ pc = "get_sp_tenant"
    /\ \E resp \in TsvResps("tC") :
         LET r == Kv_az(Argv(<<"ad", "sp", "show", "--id", m.client_id,
                               "--query", "appOwnerOrganizationId",
                               "-o", "tsv">>), TRUE, resp)
         IN  IF r.raises
             THEN /\ Goto("create_sp") /\ m' = [m EXCEPT !.found = "False"]
                  /\ UNCHANGED calls
             ELSE /\ Issue("sp_show_tenant", r, resp)
                  /\ IF r.exits THEN Exit(r.msg) /\ UNCHANGED m
                     ELSE /\ Goto("reset_sp_secret")
                          /\ m' = [m EXCEPT !.found = "True",
                                            !.real_tenant_id = Text(r.out)]
    /\ UNCHANGED <<envVars, prompts, report>>

\* The command of reset_sp_secret.
Kv_reset_cmd(id) ==
    Argv(<<"ad", "sp", "credential", "reset", "--id", id,
           "--query", "password", "-o", "tsv">>)

\* main, the found branch: reset_sp_secret, its check, the tenant backfill
Kv_reset_sp_secret ==
    /\ script = "kv" /\ pc = "reset_sp_secret"
    /\ \E resp \in TsvResps("pw1") :
         LET r == Kv_az(Kv_reset_cmd(m.client_id), TRUE, resp)
         IN  Invoke("sp_credential_reset", r, resp,
               IF Falsy(Text(r.out))
               THEN Exit("Failed to reset SP secret") /\ UNCHANGED m
               ELSE /\ Goto("assign_rbac")
                    /\ m' = [m EXCEPT !.client_secret = Text(r.out),
                                      !.tenant_id = IF Falsy(m.tenant_id)
                                                    THEN m.real_tenant_id
                                                    ELSE m.tenant_id])
    /\ UNCHANGED <<envVars, prompts, report>>

\* create_sp, the creation call
Kv_create_sp ==
    /\ script = "kv" /\ pc = "create_sp"
    /\ \E resp \in JsonResps(<<"app2", "pw2", "tC">>) :
         LET r == Kv_az(CreateCmd(m.sp_name), TRUE, resp)
         IN  Invoke("sp_create", r, resp,
               IF NotOut(r.out)
               THEN Exit("Failed to create Service Principal")
                    /\ UNCHANGED m
               ELSE IF r.out.kind = "bad"
               THEN Crash /\ UNCHANGED m
               ELSE /\ Goto("create_sp_object_id")
                    /\ m' = [m EXCEPT !.client_id = r.out.val[1],
                                      !.client_secret = r.out.val[2],
                                      !.tenant_id = r.out.val[3]])
    /\ UNCHANGED <<envVars, prompts, report>>

\* Kv_object_id_cmd querying by name instead of by the created client id.
Kv_object_id_cmd_by_name(id) ==
    Argv(<<"ad", "sp", "show", "--id", m.sp_name, "--query", "id",
           "-o", "tsv">>)

\* The command of the object-id query of create_sp.
Kv_object_id_cmd(id) ==
    Argv(<<"ad", "sp", "show", "--id", id, "--query", "id", "-o", "tsv">>)

\* create_sp, the object-id query, and the return to main
Kv_create_sp_object_id ==
    /\ script = "kv" /\ pc = "create_sp_object_id"
    /\ \E resp \in TsvResps("obj2") :
         LET r == Kv_az(Kv_object_id_cmd(m.client_id), TRUE, resp)
         IN  Invoke("sp_show_object_id", r, resp,
               /\ Goto("assign_rbac")
               /\ m' = [m EXCEPT !.object_id = Text(r.out)])
    /\ UNCHANGED <<envVars, prompts, report>>

\* The scope of the vault.
VaultScope ==
    "/subscriptions/" \o m.subscription_id \o "/resourceGroups/"
    \o m.resource_group \o "/providers/Microsoft.KeyVault/vaults/"
    \o m.keyvault_name

\* SecretScope without the secret: the scope of the whole vault.
SecretScope_whole_vault(name) == VaultScope

\* The scope of one secret of the vault.
SecretScope(name) == VaultScope \o "/secrets/" \o name

KvRole == <<"Key", "Vault", "Secrets", "User">>

\* Kv_get_secret_names with the prefix asked for at this point of main.
Kv_get_secret_names_prompting ==
    /\ script = "kv" /\ pc = "assign_rbac" /\ m.scope_choice = "2"
    /\ \E resp \in ListResps :
         LET r == Kv_az(Argv(<<"keyvault", "secret", "list", "--vault-name",
                               m.keyvault_name, "--query">>)
                        \o << <<"[?starts_with(name,",
                                "'" \o m.secret_prefix \o "')].name">> >>
                        \o Argv(<<"-o", "tsv">>), TRUE, resp)
             names == IF NotOut(r.out) THEN <<>> ELSE NonEmpty(r.out.val)
         IN  Invoke("keyvault_secret_list", r, resp,
               IF names = <<>>
               THEN Exit("No secrets found in Key Vault") /\ UNCHANGED m
               ELSE /\ Goto("assign_rbac_secrets")
                    /\ m' = [m EXCEPT !.secret_names = names, !.idx = 1])
    /\ prompts' = Append(prompts,
                         [msg |-> "Enter the prefix to match secrets",
                          after |-> Len(calls)])
    /\ UNCHANGED <<envVars, report>>

\* main, secret-prefix scoping: get_secret_names and the zero-match check
Kv_get_secret_names ==
    /\ script = "kv" /\ pc = "assign_rbac" /\ m.scope_choice = "2"
    /\ \E resp \in ListResps :
         LET r == Kv_az(Argv(<<"keyvault", "secret", "list", "--vault-name",
                               m.keyvault_name, "--query">>)
                        \o << <<"[?starts_with(name,",
                                "'" \o m.secret_prefix \o "')].name">> >>
                        \o Argv(<<"-o", "tsv">>), TRUE, resp)
             names == IF NotOut(r.out) THEN <<>> ELSE NonEmpty(r.out.val)
         IN  Invoke("keyvault_secret_list", r, resp,
               IF names = <<>>
               THEN Exit("No secrets found in Key Vault") /\ UNCHANGED m
               ELSE /\ Goto("assign_rbac_secrets")
                    /\ m' = [m EXCEPT !.secret_names = names, !.idx = 1])
    /\ UNCHANGED <<envVars, prompts, report>>

\* main, secret-prefix scoping: one turn of the loop over secret_names
Kv_assign_rbac_secret ==
    /\ script = "kv" /\ pc = "assign_rbac_secrets"
    /\ \E resp \in PlainResps :
         LET name == m.secret_names[m.idx]
             scope == SecretScope(name)
             r == Kv_az(RoleCmd(m.object_id, KvRole, scope), FALSE, resp)
         IN  Invoke("role_assignment", r, resp,
               /\ m' = [m EXCEPT !.scope = scope, !.idx = m.idx + 1]
               /\ IF m.idx < Len(m.secret_names)
                  THEN Goto("assign_rbac_secrets") ELSE Goto("report"))
    /\ UNCHANGED <<envVars, prompts, report>>

\* main, whole-vault scoping
Kv_assign_rbac_vault ==
    /\ script = "kv" /\ pc = "assign_rbac" /\ m.scope_choice # "2"
    /\ \E resp \in PlainResps :
         LET r == Kv_az(RoleCmd(m.object_id, KvRole, VaultScope),
                        FALSE, resp)
         IN  Invoke("role_assignment", r, resp,
               Goto("report") /\ m' = [m EXCEPT !.scope = VaultScope])
    /\ UNCHANGED <<envVars, prompts, report>>

\* main, the credential report
Kv_report ==
    /\ script = "kv" /\ pc = "report"
    /\ report' = [printed |-> TRUE, clientId |-> m.client_id,
                  clientSecret |-> m.client_secret,
                  tenantId |-> m.tenant_id,
                  subscriptionId |-> m.subscription_id]
    /\ pc' = "done" /\ exit_code' = 0
    /\ UNCHANGED <<envVars, message, prompts, calls, m>>

Kv_main ==
    \/ Kv_load_defaults
    \/ Kv_prompts
    \/ Kv_get_sp
    \/ Kv_get_sp_tenant
    \/ Kv_reset_sp_secret
    \/ Kv_create_sp
    \/ Kv_create_sp_object_id
    \/ Kv_get_secret_names
    \/ Kv_assign_rbac_secret
    \/ Kv_assign_rbac_vault
    \/ Kv_report

Next == Swa_main \/ Kv_main

Spec == Init /\ [][Next]_vars

-----------------------------------------------------------------------------
(* Vocabulary of the properties.                                           *)

Ended == pc \in {"done", "exit", "crash"}

CallsOf(kind) == { i \in DOMAIN calls : calls[i].kind = kind }

Count(kind) == Cardinality(CallsOf(kind))

\* The role-assignment calls, in the order they were issued.
RoleCalls == SelectSeq(calls, LAMBDA c : c.kind = "role_assignment")

AllSucceeded == \A i \in DOMAIN calls : calls[i].rc = 0

\* The call succeeded and printed nothing, or whitespace only.
EmptyOutput(c) == c.rc = 0 /\ c.stdout.kind \in {"empty", "blank"}

\* The client id the lookup by name returned (the lookup is the first call).
LookupClientId == calls[1].stdout.val[1]

\* The fields the creation call returned.
Created == calls[CHOOSE i \in CallsOf("sp_create") : TRUE].stdout.val

\* The names a secret listing printed, one per non-empty line.
Listed(c) ==
    IF c.stdout.kind = "ok" THEN SelectSeq(c.stdout.val, LAMBDA n : n # "")
    ELSE <<>>

\* Position of the id in "az ad sp ... --id <id>" commands.
IdOfReset(c) == c.argv[7]
IdOfShow(c) == c.argv[6]

-----------------------------------------------------------------------------
(* C1 as stated: whichever call made through az() exits non-zero, it is    *)
(* the last call of the run, the process has exited with a non-zero code   *)
(* and no credential report was printed.                                   *)
C1_EveryFailureIsFatal ==
    \A i \in DOMAIN calls :
        calls[i].rc # 0 =>
            /\ i = Len(calls)
            /\ pc = "exit" /\ exit_code # 0
            /\ ~report.printed

(* C1 as amended: the same for every call except the identity lookup by    *)
(* name of the Static Web App script, which get_sp makes with check=False. *)
C1_CheckedFailureIsFatal ==
    \A i \in DOMAIN calls :
        (calls[i].rc # 0
         /\ ~(script = "swa" /\ calls[i].kind = "sp_show_name")) =>
            /\ i = Len(calls)
            /\ pc = "exit" /\ exit_code # 0
            /\ ~report.printed

\* A role assignment made through os.system failed and ended the run.
C1_Witness ==
    /\ script = "kv" /\ pc = "exit"
    /\ calls # <<>>
    /\ calls[Len(calls)].kind = "role_assignment"
    /\ calls[Len(calls)].rc # 0

(* C2 as stated: in a printed report, tenantId is the value obtained from  *)
(* the defaults and the prompt when that value is not empty, on the found  *)
(* and on the created path; it is the tenant id the cloud returned when    *)
(* that value is empty.                                                    *)
C2_PromptedTenantWins ==
    report.printed =>
        IF m.prompted_tenant # ""
        THEN report.tenantId = m.prompted_tenant
        ELSE report.tenantId = IF m.found = "True" THEN m.real_tenant_id
                               ELSE Created[3]

(* C3 as stated: when the lookup by name exits non-zero or prints nothing, *)
(* get_sp reports not found and main goes on to the creation call.         *)
C3_NotFoundIsNotFatal ==
    \A i \in CallsOf("sp_show_name") :
        (calls[i].rc # 0 \/ EmptyOutput(calls[i])) =>
            /\ m.found = "False"
            /\ (i = Len(calls) => pc = "create_sp")

(* C4: once the lookup has reported found, no creation call is ever made,  *)
(* the reset call is made exactly once (it is the next call), with the     *)
(* client id the lookup returned, and that id is main's client_id and the  *)
(* clientId of the report.                                                 *)
C4_FoundResetsOnce ==
    m.found = "True" =>
        /\ Count("sp_create") = 0
        /\ Count("sp_credential_reset") =
               IF pc = "reset_sp_secret" THEN 0 ELSE 1
        /\ \A i \in CallsOf("sp_credential_reset") :
               /\ i = 3
               /\ IdOfReset(calls[i]) = Words(LookupClientId)
        /\ m.client_id = LookupClientId
        /\ (report.printed => report.clientId = LookupClientId)

\* A run on the found path that reached the report.
C4_Witness ==
    /\ m.found = "True" /\ report.printed
    /\ Count("sp_credential_reset") = 1

\* The resolver is over: main is past get_sp, reset_sp_secret and create_sp.
PastResolver ==
    pc \notin {"load_defaults", "prompt", "get_sp", "get_sp_tenant",
               "reset_sp_secret", "create_sp", "create_sp_object_id"}

\* What C5 promises of a run on the not-found path.
C5_Promise ==
    /\ Count("sp_create") = 1
    /\ Count("sp_show_object_id") = 1
    /\ \A i \in CallsOf("sp_create"), j \in CallsOf("sp_show_object_id") :
           /\ j = i + 1
           /\ IdOfShow(calls[j]) = Words(Created[1])
    /\ Count("sp_credential_reset") = 0
    /\ m.client_id = Created[1]
    /\ (report.printed => report.clientId = Created[1])

(* C5 as stated: when the lookup reported not found and no external call   *)
(* failed, the resolver made exactly one creation call, then exactly one   *)
(* object-id query with the created client id, and no reset call; the      *)
(* created client id is that of the report.                                *)
C5_NotFoundCreatesOnce ==
    (m.found = "False" /\ PastResolver /\ AllSucceeded) => C5_Promise

(* C5 as amended: the same, provided the creation call printed a JSON      *)
(* object (a creation call that succeeds with empty or unparsable output   *)
(* ends the run before the object-id query).                               *)
C5_NotFoundCreatesOnceGivenOutput ==
    (/\ m.found = "False" /\ PastResolver /\ AllSucceeded
     /\ \A i \in CallsOf("sp_create") : calls[i].stdout.kind = "ok")
    => C5_Promise

\* A run on the not-found path, without a failing call, reached the report.
C5_Witness ==
    /\ m.found = "False" /\ AllSucceeded /\ report.printed
    /\ Count("sp_show_object_id") = 1

\* The secret listing of the run, when it was made and succeeded.
Listing == calls[CHOOSE i \in CallsOf("keyvault_secret_list") : TRUE]

HasListing ==
    /\ script = "kv" /\ m.scope_choice = "2"
    /\ \E i \in CallsOf("keyvault_secret_list") : calls[i].rc = 0

\* The scope a role-assignment call was made with: its last argument.
ScopeOf(c) == c.argv[Len(c.argv)]

\* The role-assignment calls made so far are for the first names listed,
\* in listing order, each at the scope of its secret.
OnePerNameInOrder ==
    /\ Len(RoleCalls) <= Len(Listed(Listing))
    /\ \A k \in DOMAIN RoleCalls :
           ScopeOf(RoleCalls[k]) =
               Words(VaultScope \o "/secrets/" \o Listed(Listing)[k])

\* No match: the run has ended with a non-zero code, no assignment made.
NoMatchIsFatal ==
    /\ pc = "exit" /\ exit_code # 0
    /\ message = "No secrets found in Key Vault"
    /\ RoleCalls = <<>>

(* C6 as stated: with secret-prefix scoping, a listing of N >= 1 names is  *)
(* followed by exactly N role-assignment calls, one per name in listing    *)
(* order at the scope .../secrets/<name>, in every run that has ended; a   *)
(* listing of no name ends the run with a non-zero code and no assignment. *)
C6_OneAssignmentPerSecret ==
    HasListing =>
        IF Listed(Listing) = <<>> THEN NoMatchIsFatal
        ELSE /\ OnePerNameInOrder
             /\ (Ended => Len(RoleCalls) = Len(Listed(Listing)))

(* C6 as amended: the N calls are all made provided no role-assignment     *)
(* call exits non-zero; a failing one ends the run, and the calls made up  *)
(* to it are those of the first names listed, in order.                    *)
C6_OneAssignmentPerSecretUnlessFailed ==
    HasListing =>
        IF Listed(Listing) = <<>> THEN NoMatchIsFatal
        ELSE /\ OnePerNameInOrder
             /\ (Ended /\ (\A k \in DOMAIN RoleCalls : RoleCalls[k].rc = 0)
                   => Len(RoleCalls) = Len(Listed(Listing)))
             /\ (\A k \in DOMAIN RoleCalls :
                    RoleCalls[k].rc # 0 => k = Len(RoleCalls) /\ pc = "exit")

\* A listing of two names or more, every name assigned, the report printed.
C6_Witness ==
    /\ HasListing /\ report.printed
    /\ Len(RoleCalls) >= 2
    /\ Len(RoleCalls) = Len(Listed(Listing))

(* C7: when the defaults file is absent no prompt is shown and no external *)
(* call is made, and the first step of the run exits with a non-zero code. *)
C7_NoDefaultsNoCalls ==
    ~fs_exists =>
        /\ prompts = <<>>
        /\ calls = <<>>
        /\ pc \in {"load_defaults", "exit"}
        /\ (pc = "exit" => exit_code # 0)

\* The run without a defaults file has ended.
C7_Witness == ~fs_exists /\ pc = "exit" /\ exit_code = 1

\* The calls whose output is needed as a value.
ValueCalls == {"sp_create", "sp_credential_reset", "sp_show_object_id"}

SpecificMessages ==
    {"No output returned by az command", "Failed to create Service Principal",
     "Failed to reset SP secret"}

\* The assignee of a role-assignment command.
AssigneeOf(c) == c.cmd[6]

(* C8 as stated: when a creation, reset or object-id call succeeds with    *)
(* empty output the process exits non-zero with a specific message; no     *)
(* role assignment is made for an empty object id and no report is printed *)
(* with an empty or null clientSecret.                                     *)
C8_EmptyOutputIsFatal ==
    /\ \A i \in DOMAIN calls :
           (calls[i].kind \in ValueCalls /\ EmptyOutput(calls[i])) =>
               /\ i = Len(calls)
               /\ pc = "exit" /\ exit_code # 0
               /\ message \in SpecificMessages
    /\ \A k \in DOMAIN RoleCalls : AssigneeOf(RoleCalls[k]) # Words("")
    /\ (report.printed => ~Falsy(report.clientSecret))

\* The phase an external call belongs to: resolver, applier, creation.
PhaseOf(kind) ==
    CASE kind \in {"sp_show_name", "sp_show_tenant", "sp_credential_reset",
                   "sp_create", "sp_show_object_id"} -> 1
      [] kind \in {"keyvault_secret_list", "role_assignment"} -> 2
      [] OTHER -> 3

\* Loader first, calls in phase order, reporter last.
PhasesInOrder ==
    /\ (prompts # <<>> \/ calls # <<>>) =>
           fs_exists /\ m.defaults = fs_content
    /\ \A i, j \in DOMAIN calls :
           i < j => PhaseOf(calls[i].kind) <= PhaseOf(calls[j].kind)
    /\ (report.printed => pc = "done")

\* The prompts of the Static Web App.
SwaPrompts ==
    {"Do you want to create an Azure Static Web App?", "Static Web App name",
     "SWA location"}

(* C9 as stated: the phases come in order and every prompt is shown before *)
(* the first external call, hence none after a role assignment.            *)
C9_PromptsBeforeCalls ==
    /\ PhasesInOrder
    /\ \A i \in DOMAIN prompts : prompts[i].after = 0

(* C9 as amended: as stated for the Key Vault script; in the Static Web    *)
(* App script the configuration prompts are shown before the first call,   *)
(* and the prompts of the Static Web App are shown after the successful    *)
(* role assignment and before the creation of the Static Web App.          *)
C9_PromptsBeforeCallsExceptSwa ==
    /\ PhasesInOrder
    /\ \A i \in DOMAIN prompts :
           IF script = "swa" /\ prompts[i].msg \in SwaPrompts
           THEN /\ prompts[i].after > 0
                /\ calls[prompts[i].after].kind = "role_assignment"
                /\ calls[prompts[i].after].rc = 0
                /\ \A j \in CallsOf("staticwebapp_create") :
                       j = prompts[i].after + 1
           ELSE prompts[i].after = 0

\* The Static Web App was asked for after the role assignment, and created.
C9_Witness ==
    /\ script = "swa" /\ pc = "done"
    /\ Count("staticwebapp_create") = 1
    /\ \E i \in DOMAIN prompts : prompts[i].after > 0

(* C10 as stated: the argument vector the CLI receives for a role          *)
(* assignment is the vector assembled, az role assignment create           *)
(* --assignee <object id> --role <role> --scope <scope>, each value one    *)
(* argument.                                                               *)
C10_ArgvDeliveredAsAssembled ==
    \A k \in DOMAIN RoleCalls :
        /\ RoleCalls[k].argv = RoleCalls[k].cmd
        /\ Len(RoleCalls[k].argv) = 10
        /\ RoleCalls[k].argv[8] \in {<<"Contributor">>, KvRole}

====
